---- MODULE Spec2Model ----
(***************************************************************************)
(* Model of the task endpoints of the team collaboration backend:          *)
(* apps/tasks/permissions.py, apps/tasks/serializers.py,                   *)
(* apps/tasks/models.py and apps/tasks/views.py.                           *)
(*                                                                         *)
(* One action per view.  Every view is a function-based DRF view, so the   *)
(* framework runs TaskPermission.has_permission before the body and never  *)
(* runs has_object_permission by itself: the object-level check happens    *)
(* only where the body calls it (mark_task_complete, update_task_deadline).*)
(***************************************************************************)
EXTENDS Integers, Sequences, FiniteSets, Bags, TLC

VARIABLES
    tasks,        \* Task table: task id -> row (models.py Task)
    attachments,  \* TaskAttachment table: set of rows [id, task, file]
    nextTaskId,   \* autoincrement primary key of Task
    nextAttId,    \* autoincrement primary key of TaskAttachment
    now,          \* timezone.now(), in ticks
    sent,         \* bag of channel-layer group_send calls made so far
    req,          \* the request being answered [op, method, user, task, body, files]
    resp,         \* the HTTP status code answered to it
    listed,       \* the ids of the rows a list view answers with
    served,       \* number of requests answered so far
    users,        \* UserModel rows written at run time: id -> row
    password,     \* the password column: user id -> stored hash
    outstanding,  \* OutstandingToken table: set of rows [id, user]
    blacklisted,  \* BlacklistedToken table: set of OutstandingToken ids
    nextUserId,   \* autoincrement primary key of UserModel
    nextTokenId,  \* autoincrement primary key of OutstandingToken
    worker        \* the requests in progress, one per server worker, by step

\* the tables of the users app
userVars == <<users, password, outstanding, blacklisted, nextUserId, nextTokenId>>

vars == <<tasks, attachments, nextTaskId, nextAttId, now, sent, req, resp, listed, served,
          userVars, worker>>

----------------------------------------------------------------------------
(* Bounds *)

\* number of Task rows ever inserted (primary keys 1..MaxTasks)
MaxTasks == 2
\* number of requests the server answers in one run
MaxRequests == 2

----------------------------------------------------------------------------
(* Users (apps/users/models.py)                                            *)

Anonymous == 0

\* Rows of the user table that exist before the first request.  The role
\* column is a free CharField: the rows the program writes carry the
\* lowercase values of UserModel.Roles; rows 6 and 7 carry the spelling the
\* serializer's queryset asks for.  The rows written at run time
\* (register_user, demo_login) are in the variable users.
UserIds == {1, 2, 3, 4, 6, 7}

AllUserIds == UserIds \cup DOMAIN users

role(u) ==
    CASE u \in DOMAIN users -> users[u].role
      [] u = 1 -> "admin"
      [] u = 2 -> "manager"
      [] u = 3 -> "manager"
      [] u = 4 -> "employee"
      [] u = 6 -> "EMPLOYEE"
      [] u = 7 -> "EMPLOYEE"
      [] OTHER -> ""

username(u) ==
    CASE u \in DOMAIN users -> users[u].username
      [] u = 1 -> "admin"
      [] u = 2 -> "manager"
      [] u = 3 -> "manager2"
      [] u = 4 -> "employee"
      [] u = 6 -> "employee3"
      [] u = 7 -> "employee4"
      [] OTHER -> ""

\* request.user: an authenticated row of the user table, or AnonymousUser
Principals == UserIds \cup {Anonymous}

is_authenticated(u) == u \in AllUserIds

\* the principals that send requests.  Row 7 differs from row 6 by its id
\* only, so as a caller it is answered as row 6 is; it appears as an
\* assignee.
Callers == Principals \ {7}

----------------------------------------------------------------------------
(* Passwords.  A password is the sequence of its characters.               *)

UpperCase == {"A", "N"}
LowerCase == {"a", "b", "e", "w"}
Digits == {"1", "2", "3"}
SpecialCharacters == {"@", "$", "!", "%", "*", "?", "&"}

HasCharIn(pw, class) == \E i \in 1..Len(pw) : pw[i] \in class

\* validate_password_strength: TRUE when it returns None
validate_password_strength(pw) ==
    /\ Len(pw) >= 6
    /\ HasCharIn(pw, UpperCase)
    /\ HasCharIn(pw, LowerCase)
    /\ HasCharIn(pw, Digits)
    /\ HasCharIn(pw, SpecialCharacters)

\* set_password stores a salted hash; check_password hashes and compares
make_password(raw) == <<"pbkdf2_sha256$">> \o raw

check_password(raw, stored) == make_password(raw) = stored

\* the password the tests give their users, "<Username>123@", shortened
InitialPassword == <<"A", "a", "1", "2", "3", "@">>

----------------------------------------------------------------------------
(* Task.Status (apps/tasks/models.py)                                      *)

PENDING == "pending"
IN_PROGRESS == "in_progress"
COMPLETED == "completed"

Status == {PENDING, IN_PROGRESS, COMPLETED}

----------------------------------------------------------------------------
(* HTTP status codes                                                       *)

HTTP_200_OK == 200
HTTP_201_CREATED == 201
HTTP_204_NO_CONTENT == 204
HTTP_400_BAD_REQUEST == 400
HTTP_401_UNAUTHORIZED == 401
HTTP_403_FORBIDDEN == 403
HTTP_404_NOT_FOUND == 404
HTTP_500_INTERNAL_SERVER_ERROR == 500

----------------------------------------------------------------------------
(* TaskPermission (apps/tasks/permissions.py)                              *)

has_permission_employee_may_post(user, method) ==
    IF ~is_authenticated(user) THEN FALSE
    ELSE IF role(user) = "admin" THEN TRUE
    ELSE IF method = "POST" /\ role(user) = "manager" THEN TRUE
    ELSE TRUE

has_permission_employee_may_not_delete(user, method) ==
    IF ~is_authenticated(user) THEN FALSE
    ELSE IF role(user) = "admin" THEN TRUE
    ELSE IF method = "POST" /\ role(user) = "manager" THEN TRUE
    ELSE IF method \in {"POST", "DELETE"} /\ role(user) = "employee" THEN FALSE
    ELSE TRUE

has_permission(user, method) ==
    IF ~is_authenticated(user) THEN FALSE
    ELSE IF role(user) = "admin" THEN TRUE
    ELSE IF method = "POST" /\ role(user) = "manager" THEN TRUE
    ELSE IF method = "POST" /\ role(user) = "employee" THEN FALSE
    ELSE TRUE

has_object_permission_admin_as_manager(user, method, obj) ==
    IF role(user) \in {"admin", "manager"}
    THEN IF method \in {"PUT", "PATCH", "DELETE"}
         THEN obj.assigned_by = user
         ELSE TRUE
    ELSE IF role(user) = "employee"
    THEN IF method \in {"PUT", "PATCH"} THEN user \in obj.assigned_to
         ELSE IF method = "GET" THEN user \in obj.assigned_to
         ELSE FALSE
    ELSE FALSE

has_object_permission(user, method, obj) ==
    IF role(user) = "admin" THEN TRUE
    ELSE IF role(user) = "manager"
    THEN IF method \in {"PUT", "PATCH", "DELETE"}
         THEN obj.assigned_by = user
         ELSE TRUE
    ELSE IF role(user) = "employee"
    THEN IF method \in {"PUT", "PATCH"} THEN user \in obj.assigned_to
         ELSE IF method = "GET" THEN user \in obj.assigned_to
         ELSE FALSE
    ELSE FALSE

\* What @api_view/@permission_classes([TaskPermission]) answer before the
\* view body runs: 0 when the body runs, else the error status.
initial(user, method) ==
    IF has_permission(user, method) THEN 0
    ELSE IF is_authenticated(user) THEN HTTP_403_FORBIDDEN
    ELSE HTTP_401_UNAUTHORIZED

----------------------------------------------------------------------------
(* Dates.  A date string is modelled by the sequence of its numeric        *)
(* components: "2025-01-20" is <<2025, 1, 20>>, "2025-01-20T08:00" is      *)
(* <<2025, 1, 20, 8, 0>>, "" is << >> and a text without date shape is     *)
(* <<0>>.  A stored DateField value is the triple <<year, month, day>>.    *)
(* A JSON number n in the place of a string is <<-1, n>>.                  *)

BadDate == << >>

\* isinstance(v, str) is false: the body carried a JSON number
IsNumber(v) == Len(v) = 2 /\ v[1] = -1

\* `not v` of Python: the empty string and the number zero
Falsy(v) == v = << >> \/ (IsNumber(v) /\ v[2] = 0)

DaysIn(y, m) ==
    IF m \in {4, 6, 9, 11} THEN 30
    ELSE IF m = 2
         THEN (IF (y % 4 = 0 /\ y % 100 # 0) \/ y % 400 = 0 THEN 29 ELSE 28)
         ELSE 31

IsCalendarDate(y, m, d) ==
    /\ y \in 1..9999
    /\ m \in 1..12
    /\ d \in 1..DaysIn(y, m)

\* serializers.DateField().to_internal_value: strptime(value, "%Y-%m-%d");
\* a string with a time part does not match the format.
DateField_to_internal_value(s) ==
    IF Len(s) = 3 /\ IsCalendarDate(s[1], s[2], s[3])
    THEN <<s[1], s[2], s[3]>>
    ELSE BadDate

\* datetime.fromisoformat(s) followed by the DateField column keeping the
\* date part of the datetime on save(); BadDate stands for ValueError.
fromisoformat(s) ==
    IF Len(s) = 3 /\ IsCalendarDate(s[1], s[2], s[3])
    THEN <<s[1], s[2], s[3]>>
    ELSE IF Len(s) = 5 /\ IsCalendarDate(s[1], s[2], s[3])
            /\ s[4] \in 0..23 /\ s[5] \in 0..59
    THEN <<s[1], s[2], s[3]>>
    ELSE BadDate

\* datetime.strptime(s, "%Y-%m-%d").date(); BadDate stands for ValueError
strptime(s) ==
    IF Len(s) = 3 /\ IsCalendarDate(s[1], s[2], s[3])
    THEN <<s[1], s[2], s[3]>>
    ELSE BadDate

\* a <= b on dates (the deadline__lte lookup)
DateLE(a, b) ==
    \/ a[1] < b[1]
    \/ a[1] = b[1] /\ a[2] < b[2]
    \/ a[1] = b[1] /\ a[2] = b[2] /\ a[3] <= b[3]

\* str.lower() on the status spellings clients send; the iexact lookup
\* compares both sides lowered
lower(s) ==
    CASE s = "PENDING"     -> "pending"
      [] s = "Pending"     -> "pending"
      [] s = "COMPLETED"   -> "completed"
      [] s = "Completed"   -> "completed"
      [] s = "IN_PROGRESS" -> "in_progress"
      [] OTHER             -> s

iexact(a, b) == lower(a) = lower(b)

----------------------------------------------------------------------------
(* TaskSerializer (apps/tasks/serializers.py)                              *)

NULL == "NULL"

\* A request body is a record holding exactly the keys the client sent.
Has(body, f) == f \in DOMAIN body

\* queryset=UserModel.objects.filter(role='EMPLOYEE'): the exact lookup
\* compares the stored role string with 'EMPLOYEE'.
assigned_to_queryset == {u \in AllUserIds : role(u) = "EMPLOYEE"}

\* the writable fields of Meta.fields; id, assigned_by and assigned_date
\* are read-only, any other key of the body (status) is no field at all
WritableFields == {"title", "description", "docs", "assigned_to", "deadline", "labels"}
RequiredFields == {"title", "description", "assigned_to", "deadline"}

SeqToSet(s) == {s[i] : i \in 1..Len(s)}

\* per-field validation: TRUE when the value the body carries is accepted
FieldValid(body, f) ==
    CASE f = "title"       -> body.title # ""
      [] f = "description" -> body.description # ""
      [] f = "docs"        -> body.docs \in {NULL, "", "http://u1"}
      [] f = "labels"      -> TRUE
      [] f = "deadline"    -> DateField_to_internal_value(body.deadline) # BadDate
      [] f = "assigned_to" -> SeqToSet(body.assigned_to) \subseteq assigned_to_queryset
      [] OTHER             -> TRUE

\* serializer.is_valid(): every required field present unless partial,
\* every writable field that is present valid
is_valid_rejects_read_only(body, partial) ==
    /\ partial \/ \A f \in RequiredFields : Has(body, f)
    /\ \A f \in WritableFields : Has(body, f) => FieldValid(body, f)
    /\ ~Has(body, "assigned_by") /\ ~Has(body, "assigned_date")

is_valid(body, partial) ==
    /\ partial \/ \A f \in RequiredFields : Has(body, f)
    /\ \A f \in WritableFields : Has(body, f) => FieldValid(body, f)

\* the internal value of a validated field
to_internal_value(body, f) ==
    CASE f = "deadline"    -> DateField_to_internal_value(body.deadline)
      [] f = "assigned_to" -> SeqToSet(body.assigned_to)
      [] OTHER             -> body[f]

\* TaskSerializer.create: Task.objects.create(**validated_data,
\* assigned_by=request.user); task.assigned_to.set(assigned_to_data).
\* Columns the body leaves out take the model defaults.
create(body, user, clock) ==
    [ title         |-> body.title,
      description   |-> body.description,
      docs          |-> IF Has(body, "docs") THEN body.docs ELSE NULL,
      assigned_by   |-> user,
      assigned_to   |-> SeqToSet(body.assigned_to),
      deadline      |-> DateField_to_internal_value(body.deadline),
      assigned_date |-> clock,
      labels        |-> IF Has(body, "labels") THEN body.labels ELSE "",
      status        |-> PENDING ]

\* ModelSerializer.update: setattr for every validated field, then save()
update_writes_read_only(instance, body) ==
    [f \in DOMAIN instance |->
        IF f \in (WritableFields \cup {"assigned_by", "assigned_date"}) /\ Has(body, f)
        THEN to_internal_value(body, f)
        ELSE instance[f]]

update(instance, body) ==
    [f \in DOMAIN instance |->
        IF f \in WritableFields /\ Has(body, f)
        THEN to_internal_value(body, f)
        ELSE instance[f]]

----------------------------------------------------------------------------
(* Request inputs                                                          *)

\* the bodies clients send: full drafts, partial patches, and bodies that
\* carry keys the serializer does not write (status, assigned_by,
\* assigned_date)
Draft(t, a) ==
    [title |-> t, description |-> "d1", deadline |-> <<2025, 1, 10>>, assigned_to |-> a]

FullBody ==
    [title |-> "t2", description |-> "d2", deadline |-> <<2025, 1, 20>>,
     assigned_to |-> <<7, 6>>, docs |-> "http://u1", labels |-> "l1",
     status |-> COMPLETED, assigned_by |-> 3, assigned_date |-> 7]

\* request.data of create_task
CreateBodies ==
    { Draft("t1", << >>), FullBody,
      Draft("t1", <<4>>), Draft("", <<6>>),
      [title |-> "t1", description |-> "d1", deadline |-> <<2025, 1, 10>>],
      [title |-> "t1", description |-> "d1", assigned_to |-> <<6>>,
       deadline |-> <<2025, 1, 20, 8, 0>>] }

\* request.data of update_task
UpdateBodies ==
    { Draft("t1", << >>), FullBody,
      << >>,
      [title |-> "t2"], [title |-> ""],
      [deadline |-> <<2025, 1, 20>>], [deadline |-> <<2025, 2, 30>>],
      [assigned_to |-> << >>], [assigned_to |-> <<6, 6>>], [assigned_to |-> <<4>>],
      [assigned_to |-> <<2>>], [assigned_to |-> <<9>>],
      [status |-> PENDING], [status |-> IN_PROGRESS],
      [assigned_by |-> 3], [assigned_by |-> 2] }

\* request.data of update_task_deadline
DeadlineBodies ==
    { << >>, [deadline |-> << >>], [deadline |-> <<0>>],
      [deadline |-> <<2025, 2, 30>>], [deadline |-> <<-1, 20250120>>],
      [deadline |-> <<2025, 1, 20>>], [deadline |-> <<2025, 1, 20, 8, 0>>] }

\* request.query_params.get('status') of filter_by_status; NULL when the
\* parameter is missing
StatusParams == {NULL, "pending", "PENDING", "completed"}

\* request.query_params.get("date") of filter_by_deadline; << >> when the
\* parameter is missing or empty
DateParams == {<< >>, <<2025, 1, 20, 8, 0>>, <<2025, 1, 10>>, <<2025, 1, 15>>}

\* request.FILES.getlist('files')
FileLists == {<< >>, <<"f1", "f2">>}

TaskIds == 1..MaxTasks

NoBody == << >>
NoFiles == << >>

Request(op, method, user, task, body, files) ==
    [op |-> op, method |-> method, user |-> user, task |-> task,
     body |-> body, files |-> files]

----------------------------------------------------------------------------
(* Server workers.  Two requests can be in progress at once; each runs the *)
(* statements of its view in order, one database access per step.          *)

Workers == {1, 2}

\* a worker that is running no view
IdleWorker ==
    [ pc |-> "idle", op |-> "none", method |-> "", user |-> Anonymous, task_id |-> 0,
      body |-> << >>, files |-> << >>, written |-> 0, instance |-> << >>, todo |-> {},
      resp |-> 0 ]

----------------------------------------------------------------------------
(* Initial database                                                        *)

\* the row the task tests insert through the ORM: created by the manager,
\* assigned to the employee, status pending
FixtureTask ==
    [ title         |-> "t1",
      description   |-> "d1",
      docs          |-> NULL,
      assigned_by   |-> 2,
      assigned_to   |-> {4},
      deadline      |-> <<2025, 1, 10>>,
      assigned_date |-> 0,
      labels        |-> "",
      status        |-> PENDING ]

Init ==
    /\ tasks \in {<< >>, (1 :> FixtureTask)}
    /\ attachments = {}
    /\ nextTaskId = Cardinality(DOMAIN tasks) + 1
    /\ nextAttId = 1
    /\ now = 1
    /\ sent = EmptyBag
    /\ req = Request("none", "", Anonymous, 0, NoBody, NoFiles)
    /\ resp = 0
    /\ listed = {}
    /\ served = 0
    /\ users = << >>
    /\ password = [u \in UserIds |-> make_password(InitialPassword)]
    /\ outstanding = {}
    /\ blacklisted = {}
    /\ nextUserId = 8
    /\ nextTokenId = 1
    /\ worker = [w \in Workers |-> IdleWorker]

----------------------------------------------------------------------------
(* Helpers of the views                                                    *)

Exists(task_id) == task_id \in DOMAIN tasks

\* the message create_task hands to channel_layer.group_send
Notification_to_creator(employee, task_id, task, user) ==
    [ group       |-> user,
      task_id     |-> task_id,
      task_title  |-> task.title,
      assigned_by |-> username(user) ]

Notification(employee, task_id, task, user) ==
    [ group       |-> employee,
      task_id     |-> task_id,
      task_title  |-> task.title,
      assigned_by |-> username(user) ]

\* on_delete=models.CASCADE of TaskAttachment.task
CascadeDelete_keeps_attachments(task_id) == attachments

CascadeDelete(task_id) == {a \in attachments : a.task # task_id}

Answer(r, code) ==
    /\ req' = r
    /\ resp' = code
    /\ listed' = {}
    /\ served' = served + 1
    /\ UNCHANGED <<userVars, worker>>

\* the answer of a list view: 200 and the rows of the queryset, which the
\* paginator cuts into pages
AnswerList(r, queryset) ==
    /\ req' = r
    /\ resp' = HTTP_200_OK
    /\ listed' = queryset
    /\ served' = served + 1
    /\ UNCHANGED <<userVars, worker>>

NoWrite == UNCHANGED <<tasks, attachments, nextTaskId, nextAttId, now, sent>>

\* the worker serves one request at a time: no request is being answered
Idle == req.op = "none" /\ served < MaxRequests

----------------------------------------------------------------------------
(* Views (apps/tasks/views.py)                                             *)

\* POST create/ .  chan_ok is whether the channel layer accepts group_send
\* during this request; when it does not, the first send raises after the
\* task and its attachments were written.
create_task(user, body, files, chan_ok) ==
    LET r == Request("create_task", "POST", user, 0, body, files)
        task == create(body, user, now)
        newAtts == {[id |-> nextAttId + i - 1, task |-> nextTaskId, file |-> files[i]]
                        : i \in 1..Len(files)}
    IN
    /\ Idle
    /\ IF initial(user, "POST") # 0
       THEN Answer(r, initial(user, "POST")) /\ NoWrite
       ELSE IF ~is_valid(body, FALSE)
       THEN Answer(r, HTTP_400_BAD_REQUEST) /\ NoWrite
       ELSE /\ nextTaskId <= MaxTasks
            /\ tasks' = (nextTaskId :> task) @@ tasks
            /\ nextTaskId' = nextTaskId + 1
            /\ now' = now + 1
            /\ attachments' = attachments \cup newAtts
            /\ nextAttId' = nextAttId + Len(files)
            /\ IF task.assigned_to = {}
               THEN /\ chan_ok
                    /\ sent' = sent
                    /\ Answer(r, HTTP_201_CREATED)
               ELSE IF chan_ok
               THEN /\ sent' = sent (+) SetToBag(
                           {Notification(e, nextTaskId, task, user) : e \in task.assigned_to})
                    /\ Answer(r, HTTP_201_CREATED)
               ELSE /\ sent' = sent
                    /\ Answer(r, HTTP_500_INTERNAL_SERVER_ERROR)

\* GET <task_id>/
list_one_task(user, task_id) ==
    LET r == Request("list_one_task", "GET", user, task_id, NoBody, NoFiles) IN
    /\ Idle
    /\ NoWrite
    /\ IF initial(user, "GET") # 0 THEN Answer(r, initial(user, "GET"))
       ELSE IF ~Exists(task_id) THEN Answer(r, HTTP_404_NOT_FOUND)
       ELSE Answer(r, HTTP_200_OK)

\* PUT|PATCH <task_id>/update/
update_task(user, task_id, method, body) ==
    LET r == Request("update_task", method, user, task_id, body, NoFiles)
        partial == (method = "PATCH")
    IN
    /\ Idle
    /\ IF initial(user, method) # 0
       THEN Answer(r, initial(user, method)) /\ NoWrite
       ELSE IF ~Exists(task_id)
       THEN Answer(r, HTTP_404_NOT_FOUND) /\ NoWrite
       ELSE IF ~is_valid(body, partial)
       THEN Answer(r, HTTP_400_BAD_REQUEST) /\ NoWrite
       ELSE /\ tasks' = [tasks EXCEPT ![task_id] = update(tasks[task_id], body)]
            /\ Answer(r, HTTP_200_OK)
            /\ UNCHANGED <<attachments, nextTaskId, nextAttId, now, sent>>

\* DELETE <task_id>/delete/
delete_task(user, task_id) ==
    LET r == Request("delete_task", "DELETE", user, task_id, NoBody, NoFiles) IN
    /\ Idle
    /\ IF initial(user, "DELETE") # 0
       THEN Answer(r, initial(user, "DELETE")) /\ NoWrite
       ELSE IF ~Exists(task_id)
       THEN Answer(r, HTTP_404_NOT_FOUND) /\ NoWrite
       ELSE /\ tasks' = [t \in DOMAIN tasks \ {task_id} |-> tasks[t]]
            /\ attachments' = CascadeDelete(task_id)
            /\ Answer(r, HTTP_204_NO_CONTENT)
            /\ UNCHANGED <<nextTaskId, nextAttId, now, sent>>

\* PATCH <task_id>/complete/
mark_task_complete_without_object_check(user, task_id) ==
    LET r == Request("mark_task_complete", "PATCH", user, task_id, NoBody, NoFiles) IN
    /\ Idle
    /\ IF initial(user, "PATCH") # 0
       THEN Answer(r, initial(user, "PATCH")) /\ NoWrite
       ELSE IF ~Exists(task_id)
       THEN Answer(r, HTTP_404_NOT_FOUND) /\ NoWrite
       ELSE /\ tasks' = [tasks EXCEPT ![task_id].status = COMPLETED]
            /\ Answer(r, HTTP_200_OK)
            /\ UNCHANGED <<attachments, nextTaskId, nextAttId, now, sent>>

mark_task_complete(user, task_id) ==
    LET r == Request("mark_task_complete", "PATCH", user, task_id, NoBody, NoFiles) IN
    /\ Idle
    /\ IF initial(user, "PATCH") # 0
       THEN Answer(r, initial(user, "PATCH")) /\ NoWrite
       ELSE IF ~Exists(task_id)
       THEN Answer(r, HTTP_404_NOT_FOUND) /\ NoWrite
       ELSE IF ~has_object_permission(user, "PATCH", tasks[task_id])
       THEN Answer(r, HTTP_403_FORBIDDEN) /\ NoWrite
       ELSE /\ tasks' = [tasks EXCEPT ![task_id].status = COMPLETED]
            /\ Answer(r, HTTP_200_OK)
            /\ UNCHANGED <<attachments, nextTaskId, nextAttId, now, sent>>

\* PATCH <task_id>/deadline/
update_task_deadline(user, task_id, body) ==
    LET r == Request("update_task_deadline", "PATCH", user, task_id, body, NoFiles) IN
    /\ Idle
    /\ IF initial(user, "PATCH") # 0
       THEN Answer(r, initial(user, "PATCH")) /\ NoWrite
       ELSE IF ~Exists(task_id)
       THEN Answer(r, HTTP_404_NOT_FOUND) /\ NoWrite
       ELSE IF ~has_object_permission(user, "PATCH", tasks[task_id])
       THEN Answer(r, HTTP_403_FORBIDDEN) /\ NoWrite
       ELSE IF ~Has(body, "deadline") \/ Falsy(body.deadline)
       THEN Answer(r, HTTP_400_BAD_REQUEST) /\ NoWrite
       ELSE IF IsNumber(body.deadline)
       THEN \* fromisoformat raises TypeError, which the view does not catch
            Answer(r, HTTP_500_INTERNAL_SERVER_ERROR) /\ NoWrite
       ELSE IF fromisoformat(body.deadline) = BadDate
       THEN Answer(r, HTTP_400_BAD_REQUEST) /\ NoWrite
       ELSE /\ tasks' = [tasks EXCEPT ![task_id].deadline = fromisoformat(body.deadline)]
            /\ Answer(r, HTTP_200_OK)
            /\ UNCHANGED <<attachments, nextTaskId, nextAttId, now, sent>>

\* GET /  : Task.objects.all(), whoever asks
list_all_task(user) ==
    LET r == Request("list_all_task", "GET", user, 0, NoBody, NoFiles) IN
    /\ Idle
    /\ NoWrite
    /\ IF initial(user, "GET") # 0 THEN Answer(r, initial(user, "GET"))
       ELSE AnswerList(r, DOMAIN tasks)

\* GET filter-status/?status=<status_param>
filter_by_status(user, status_param) ==
    LET r == Request("filter_by_status", "GET", user, 0,
                     [status |-> status_param], NoFiles)
        matching == {t \in DOMAIN tasks : iexact(tasks[t].status, status_param)}
    IN
    /\ Idle
    /\ NoWrite
    /\ IF initial(user, "GET") # 0 THEN Answer(r, initial(user, "GET"))
       ELSE IF status_param \in {NULL, ""} THEN Answer(r, HTTP_400_BAD_REQUEST)
       ELSE IF role(user) = "ADMIN" THEN AnswerList(r, matching)
       ELSE IF role(user) = "MANAGER"
       THEN AnswerList(r, {t \in matching : user \in tasks[t].assigned_to})
       ELSE AnswerList(r, {t \in matching : user \in tasks[t].assigned_to})

\* GET filter-deadline/?date=<deadline_str>
filter_by_deadline(user, deadline_str) ==
    LET r == Request("filter_by_deadline", "GET", user, 0,
                     [date |-> deadline_str], NoFiles)
        deadline == strptime(deadline_str)
        matching == {t \in DOMAIN tasks : DateLE(tasks[t].deadline, deadline)}
    IN
    /\ Idle
    /\ NoWrite
    /\ IF initial(user, "GET") # 0 THEN Answer(r, initial(user, "GET"))
       ELSE IF deadline_str = << >> THEN Answer(r, HTTP_400_BAD_REQUEST)
       ELSE IF deadline = BadDate THEN Answer(r, HTTP_400_BAD_REQUEST)
       ELSE IF role(user) = "ADMIN" THEN AnswerList(r, matching)
       ELSE AnswerList(r, {t \in matching : user \in tasks[t].assigned_to})

\* the Response object leaves the view: the client has its answer and the
\* worker takes the next request
deliver_response ==
    /\ req.op # "none"
    /\ req' = Request("none", "", Anonymous, 0, NoBody, NoFiles)
    /\ resp' = 0
    /\ listed' = {}
    /\ UNCHANGED served
    /\ UNCHANGED <<userVars, worker>>
    /\ NoWrite

----------------------------------------------------------------------------
(* Specification                                                           *)

Next ==
    \/ \E user \in Callers, body \in CreateBodies, files \in FileLists, chan_ok \in BOOLEAN :
            create_task(user, body, files, chan_ok)
    \/ \E user \in Callers, task_id \in TaskIds : list_one_task(user, task_id)
    \/ \E user \in Callers, task_id \in TaskIds, method \in {"PUT", "PATCH"},
          body \in UpdateBodies :
            update_task(user, task_id, method, body)
    \/ \E user \in Callers, task_id \in TaskIds : delete_task(user, task_id)
    \/ \E user \in Callers, task_id \in TaskIds : mark_task_complete(user, task_id)
    \/ \E user \in Callers, task_id \in TaskIds, body \in DeadlineBodies :
            update_task_deadline(user, task_id, body)
    \/ \E user \in Callers : list_all_task(user)
    \/ \E user \in Callers, status_param \in StatusParams :
            filter_by_status(user, status_param)
    \/ \E user \in Callers, deadline_str \in DateParams :
            filter_by_deadline(user, deadline_str)
    \/ deliver_response

Spec == Init /\ [][Next]_vars

----------------------------------------------------------------------------
(* The task views statement by statement (apps/tasks/views.py), as two     *)
(* workers run them side by side.  A step is the statements up to and      *)
(* including one database access or one group_send.                        *)

\* request.data of the update_task requests that run side by side
StepUpdateBodies == {[title |-> "t2"], [deadline |-> <<2025, 1, 20>>]}

\* request.data of the update_task_deadline requests that run side by side
StepDeadlineBodies == {[deadline |-> <<2025, 1, 15>>], [deadline |-> <<0>>]}

\* request.data of the create_task requests that run side by side
StepCreateBodies == {FullBody, Draft("t1", <<4>>)}

StepUsers == {2, 4}

Start(w, op, method, user, task_id, body, files) ==
    [IdleWorker EXCEPT !.op = op, !.method = method, !.user = user,
                       !.task_id = task_id, !.body = body, !.files = files]

MayStart(w) == worker[w].pc = "idle" /\ served < MaxRequests

StepFrame == UNCHANGED <<req, resp, listed, userVars>>

\* the worker answers code and runs no further statement of the view
Done(w, st, code) == worker' = [worker EXCEPT ![w] = [st EXCEPT !.pc = "done", !.resp = code]]

\* Model.save(): UPDATE of every column of the row from the instance in
\* memory; the many-to-many assigned_to is no column
save(instance, task_id) ==
    [tasks EXCEPT ![task_id] = [instance EXCEPT !.assigned_to = tasks[task_id].assigned_to]]

\* create_task up to Task.objects.create(**validated_data, assigned_by=user)
create_task_insert(w, user, body, files) ==
    LET st == Start(w, "create_task", "POST", user, nextTaskId, body, files) IN
    /\ MayStart(w)
    /\ served' = served + 1
    /\ StepFrame
    /\ IF initial(user, "POST") # 0
       THEN Done(w, st, initial(user, "POST")) /\ NoWrite
       ELSE IF ~is_valid(body, FALSE)
       THEN Done(w, st, HTTP_400_BAD_REQUEST) /\ NoWrite
       ELSE /\ nextTaskId <= MaxTasks
            /\ tasks' = (nextTaskId :> [create(body, user, now) EXCEPT !.assigned_to = {}])
                            @@ tasks
            /\ nextTaskId' = nextTaskId + 1
            /\ now' = now + 1
            /\ worker' = [worker EXCEPT ![w] = [st EXCEPT !.pc = "inserted"]]
            /\ UNCHANGED <<attachments, nextAttId, sent>>

\* task.assigned_to.set(assigned_to_data), the end of serializer.save()
create_task_set_assignees(w) ==
    LET st == worker[w] IN
    /\ st.pc = "inserted"
    /\ tasks' = [tasks EXCEPT ![st.task_id].assigned_to = SeqToSet(st.body.assigned_to)]
    /\ worker' = [worker EXCEPT ![w].pc = "attaching"]
    /\ UNCHANGED <<attachments, nextTaskId, nextAttId, now, sent, served>>
    /\ StepFrame

\* for f in files: TaskAttachment.objects.create(task=task, file=f)
create_task_attach(w) ==
    LET st == worker[w] IN
    /\ st.pc = "attaching"
    /\ st.written < Len(st.files)
    /\ attachments' = attachments \cup
            {[id |-> nextAttId, task |-> st.task_id, file |-> st.files[st.written + 1]]}
    /\ nextAttId' = nextAttId + 1
    /\ worker' = [worker EXCEPT ![w].written = st.written + 1]
    /\ UNCHANGED <<tasks, nextTaskId, now, sent, served>>
    /\ StepFrame

\* for employee in task.assigned_to.all(): the query that starts the loop
create_task_read_assignees_early(w) ==
    LET st == worker[w] IN
    /\ st.pc = "attaching"
    /\ worker' = [worker EXCEPT ![w].pc = "notifying",
                                 ![w].todo = tasks[st.task_id].assigned_to,
                                 ![w].instance = tasks[st.task_id]]
    /\ NoWrite
    /\ UNCHANGED served
    /\ StepFrame

create_task_read_assignees(w) ==
    LET st == worker[w] IN
    /\ st.pc = "attaching"
    /\ st.written = Len(st.files)
    /\ worker' = [worker EXCEPT ![w].pc = "notifying",
                                 ![w].todo = tasks[st.task_id].assigned_to,
                                 ![w].instance = tasks[st.task_id]]
    /\ NoWrite
    /\ UNCHANGED served
    /\ StepFrame

\* one turn of the loop: async_to_sync(channel_layer.group_send)(...);
\* chan_ok is whether the channel layer accepts the call
create_task_send(w, employee, chan_ok) ==
    LET st == worker[w] IN
    /\ st.pc = "notifying"
    /\ employee \in st.todo
    /\ IF chan_ok
       THEN /\ sent' = sent (+) SetToBag(
                    {Notification(employee, st.task_id, st.instance, st.user)})
            /\ worker' = [worker EXCEPT ![w].todo = st.todo \ {employee}]
       ELSE /\ sent' = sent
            /\ Done(w, st, HTTP_500_INTERNAL_SERVER_ERROR)
    /\ UNCHANGED <<tasks, attachments, nextTaskId, nextAttId, now, served>>
    /\ StepFrame

\* return Response(..., status=HTTP_201_CREATED)
create_task_return(w) ==
    LET st == worker[w] IN
    /\ st.pc = "notifying"
    /\ st.todo = {}
    /\ Done(w, st, HTTP_201_CREATED)
    /\ NoWrite
    /\ UNCHANGED served
    /\ StepFrame

\* the statements the three updating views share: the permission check of
\* the decorator and Task.objects.get(id=task_id)
get_task(w, op, method, user, task_id, body) ==
    LET st == Start(w, op, method, user, task_id, body, << >>) IN
    /\ MayStart(w)
    /\ served' = served + 1
    /\ NoWrite
    /\ StepFrame
    /\ IF initial(user, method) # 0 THEN Done(w, st, initial(user, method))
       ELSE IF ~Exists(task_id) THEN Done(w, st, HTTP_404_NOT_FOUND)
       ELSE worker' = [worker EXCEPT ![w] =
                            [st EXCEPT !.pc = "loaded", !.instance = tasks[task_id]]]

\* mark_task_complete after the get: object check, task.status =
\* COMPLETED, task.save()
mark_task_complete_save(w) ==
    LET st == worker[w] IN
    /\ st.pc = "loaded" /\ st.op = "mark_task_complete"
    /\ UNCHANGED <<attachments, nextTaskId, nextAttId, now, sent, served>>
    /\ StepFrame
    /\ IF ~has_object_permission(st.user, "PATCH", st.instance)
       THEN Done(w, st, HTTP_403_FORBIDDEN) /\ UNCHANGED tasks
       ELSE /\ st.task_id \in DOMAIN tasks
            /\ tasks' = save([st.instance EXCEPT !.status = COMPLETED], st.task_id)
            /\ Done(w, st, HTTP_200_OK)

\* update_task_deadline after the get: object check, presence, parse,
\* task.save()
update_task_deadline_save(w) ==
    LET st == worker[w] IN
    /\ st.pc = "loaded" /\ st.op = "update_task_deadline"
    /\ UNCHANGED <<attachments, nextTaskId, nextAttId, now, sent, served>>
    /\ StepFrame
    /\ IF ~has_object_permission(st.user, "PATCH", st.instance)
       THEN Done(w, st, HTTP_403_FORBIDDEN) /\ UNCHANGED tasks
       ELSE IF ~Has(st.body, "deadline") \/ Falsy(st.body.deadline)
       THEN Done(w, st, HTTP_400_BAD_REQUEST) /\ UNCHANGED tasks
       ELSE IF IsNumber(st.body.deadline)
       THEN Done(w, st, HTTP_500_INTERNAL_SERVER_ERROR) /\ UNCHANGED tasks
       ELSE IF fromisoformat(st.body.deadline) = BadDate
       THEN Done(w, st, HTTP_400_BAD_REQUEST) /\ UNCHANGED tasks
       ELSE /\ st.task_id \in DOMAIN tasks
            /\ tasks' = save([st.instance EXCEPT
                                !.deadline = fromisoformat(st.body.deadline)], st.task_id)
            /\ Done(w, st, HTTP_200_OK)

\* update_task after the get: is_valid, serializer.save()
update_task_save(w) ==
    LET st == worker[w] IN
    /\ st.pc = "loaded" /\ st.op = "update_task"
    /\ UNCHANGED <<attachments, nextTaskId, nextAttId, now, sent, served>>
    /\ StepFrame
    /\ IF ~is_valid(st.body, st.method = "PATCH")
       THEN Done(w, st, HTTP_400_BAD_REQUEST) /\ UNCHANGED tasks
       ELSE /\ st.task_id \in DOMAIN tasks
            /\ tasks' = save(update(st.instance, st.body), st.task_id)
            /\ Done(w, st, HTTP_200_OK)

\* the response has left: the worker takes the next request
worker_free(w) ==
    /\ worker[w].pc = "done"
    /\ worker' = [worker EXCEPT ![w] = IdleWorker]
    /\ NoWrite
    /\ UNCHANGED served
    /\ StepFrame

NextSteps ==
    \E w \in Workers :
        \/ \E user \in StepUsers, body \in StepCreateBodies, files \in FileLists :
                create_task_insert(w, user, body, files)
        \/ create_task_set_assignees(w)
        \/ create_task_attach(w)
        \/ create_task_read_assignees(w)
        \/ \E employee \in AllUserIds, chan_ok \in BOOLEAN :
                create_task_send(w, employee, chan_ok)
        \/ create_task_return(w)
        \/ \E user \in StepUsers, task_id \in TaskIds :
                get_task(w, "mark_task_complete", "PATCH", user, task_id, << >>)
        \/ \E user \in StepUsers, task_id \in TaskIds, body \in StepDeadlineBodies :
                get_task(w, "update_task_deadline", "PATCH", user, task_id, body)
        \/ \E user \in StepUsers, task_id \in TaskIds, body \in StepUpdateBodies :
                get_task(w, "update_task", "PATCH", user, task_id, body)
        \/ mark_task_complete_save(w)
        \/ update_task_deadline_save(w)
        \/ update_task_save(w)
        \/ worker_free(w)

SpecSteps == Init /\ [][NextSteps]_vars

----------------------------------------------------------------------------
(* UserSerializer (apps/users/serializers.py)                              *)

\* Meta.fields: role and username are no fields of the serializer
UserFields ==
    {"email", "password", "first_name", "middle_name", "last_name", "date_of_birth"}

\* the fields whose model column has neither blank=True nor a default
UserRequiredFields == {"password", "first_name", "last_name"}

UserSerializer_is_valid(body) ==
    /\ \A f \in UserRequiredFields : Has(body, f)
    /\ body.password # << >>
    /\ body.first_name # ""
    /\ body.last_name # ""

\* UserSerializer.create: UserModel(**validated_data); the columns that
\* validated_data does not hold take the model defaults (username '',
\* role Roles.EMPLOYEE)
UserSerializer_create_takes_role(body) ==
    [ username   |-> "",
      email      |-> IF Has(body, "email") THEN body.email ELSE "",
      first_name |-> body.first_name,
      last_name  |-> body.last_name,
      role       |-> IF Has(body, "role") THEN body.role ELSE "employee" ]

UserSerializer_create(body) ==
    [ username   |-> "",
      email      |-> IF Has(body, "email") THEN body.email ELSE "",
      first_name |-> body.first_name,
      last_name  |-> body.last_name,
      role       |-> "employee" ]

----------------------------------------------------------------------------
(* Views of the users app (apps/users/views.py, views_demo.py)             *)

\* request.data of register_user
Registration(role_key) ==
    [email |-> "alice@example.com", password |-> InitialPassword,
     first_name |-> "Alice", last_name |-> "Smith", username |-> "alice"] @@ role_key

RegisterBodies ==
    { Registration(<< >>), Registration([role |-> "employee"]),
      Registration([role |-> "admin"]), Registration([role |-> "manager"]),
      [email |-> "alice@example.com", role |-> "admin"],
      [password |-> <<"w">>, first_name |-> "Bob", last_name |-> "Builder",
       role |-> "admin"] }

NewPassword == <<"N", "e", "w", "1", "2", "!">>

\* request.data of login_user
Identifiers == {"", "admin", "employee", "alice"}
LoginPasswords == {<< >>, InitialPassword, NewPassword}

\* request.data of change_password
PasswordBodies ==
    { << >>,
      [old_password |-> InitialPassword],
      [old_password |-> InitialPassword, new_password |-> << >>],
      [old_password |-> NewPassword, new_password |-> InitialPassword],
      [old_password |-> InitialPassword, new_password |-> InitialPassword],
      [old_password |-> InitialPassword, new_password |-> <<"N", "e", "w", "1", "2">>],
      [old_password |-> InitialPassword, new_password |-> <<"n", "e", "w", "e", "1", "!">>],
      [old_password |-> InitialPassword, new_password |-> NewPassword] }

\* the principals that call the views of the users app
UserCallers == {Anonymous, 1, 2, 4} \cup DOMAIN users

\* the answer of a view of the users app; data holds the ids of the rows
\* (users, refresh tokens) the response carries
Reply(r, code, data) ==
    /\ req' = r
    /\ resp' = code
    /\ listed' = data
    /\ served' = served + 1
    /\ UNCHANGED worker
    /\ NoWrite

NoUserWrite == UNCHANGED userVars

\* RefreshToken.for_user(user): a new OutstandingToken row
for_user(user, id) == [id |-> id, user |-> user]

\* GET users/ : permission_classes([]), no check at all
get_all_user(user) ==
    LET r == Request("get_all_user", "GET", user, 0, NoBody, NoFiles) IN
    /\ Idle
    /\ NoUserWrite
    /\ Reply(r, HTTP_200_OK, AllUserIds)

\* POST users/register/ : AllowAny
register_user(body) ==
    LET r == Request("register_user", "POST", Anonymous, 0, body, NoFiles) IN
    /\ Idle
    /\ IF ~UserSerializer_is_valid(body)
       THEN Reply(r, HTTP_400_BAD_REQUEST, {}) /\ NoUserWrite
       ELSE IF \E u \in AllUserIds : username(u) = UserSerializer_create(body).username
       THEN \* user.save() breaks the unique constraint of username
            Reply(r, HTTP_500_INTERNAL_SERVER_ERROR, {}) /\ NoUserWrite
       ELSE /\ users' = (nextUserId :> UserSerializer_create(body)) @@ users
            /\ password' = (nextUserId :> make_password(body.password)) @@ password
            /\ nextUserId' = nextUserId + 1
            /\ UNCHANGED <<outstanding, blacklisted, nextTokenId>>
            /\ Reply(r, HTTP_201_CREATED, {})

\* the user of that username when the password checks, else None
\* (Anonymous stands for None)
UserOfCredentials(name, pw) ==
    LET found == {u \in AllUserIds :
                    username(u) = name /\ check_password(pw, password[u])}
    IN  IF found = {} THEN Anonymous ELSE CHOOSE u \in found : TRUE

\* EmailOrUsernameBackend.authenticate(request, username=identifier,
\* password=pw): a username that is not None is replaced by
\* kwargs.get('identifier'), a key login_user does not pass, so the row is
\* looked up by the username None
EmailOrUsernameBackend(identifier, pw) ==
    LET name == IF identifier # NULL THEN NULL ELSE identifier
    IN  UserOfCredentials(name, pw)

\* django.contrib.auth.authenticate: the first backend that returns a user.
\* model_backend is whether the settings also list Django's ModelBackend,
\* which looks the row up by the username it is given.
authenticate(identifier, pw, model_backend) ==
    IF EmailOrUsernameBackend(identifier, pw) # Anonymous
    THEN EmailOrUsernameBackend(identifier, pw)
    ELSE IF model_backend THEN UserOfCredentials(identifier, pw)
    ELSE Anonymous

\* POST users/login/ : AllowAny
login_user(identifier, pw, model_backend) ==
    LET r == Request("login_user", "POST", Anonymous, 0,
                     [identifier |-> identifier, password |-> pw], NoFiles)
        user == authenticate(identifier, pw, model_backend)
    IN
    /\ Idle
    /\ IF identifier = "" \/ pw = << >>
       THEN Reply(r, HTTP_400_BAD_REQUEST, {}) /\ NoUserWrite
       ELSE IF user = Anonymous
       THEN Reply(r, HTTP_401_UNAUTHORIZED, {}) /\ NoUserWrite
       ELSE /\ outstanding' = outstanding \cup {for_user(user, nextTokenId)}
            /\ nextTokenId' = nextTokenId + 1
            /\ UNCHANGED <<users, password, blacklisted, nextUserId>>
            /\ Reply(r, HTTP_200_OK, {nextTokenId})

\* blacklist_all_tokens(user): a BlacklistedToken row for every
\* OutstandingToken row of the user
blacklist_all_tokens_forgotten(user) == blacklisted

blacklist_all_tokens(user) ==
    blacklisted \cup {t.id : t \in {o \in outstanding : o.user = user}}

\* POST users/change-password/ : IsAuthenticated
change_password(user, body) ==
    LET r == Request("change_password", "POST", user, 0, body, NoFiles) IN
    /\ Idle
    /\ IF ~is_authenticated(user)
       THEN Reply(r, HTTP_401_UNAUTHORIZED, {}) /\ NoUserWrite
       ELSE IF \/ ~Has(body, "old_password") \/ ~Has(body, "new_password")
               \/ body.old_password = << >> \/ body.new_password = << >>
       THEN Reply(r, HTTP_400_BAD_REQUEST, {}) /\ NoUserWrite
       ELSE IF ~check_password(body.old_password, password[user])
       THEN Reply(r, HTTP_400_BAD_REQUEST, {}) /\ NoUserWrite
       ELSE IF body.old_password = body.new_password
       THEN Reply(r, HTTP_400_BAD_REQUEST, {}) /\ NoUserWrite
       ELSE IF ~validate_password_strength(body.new_password)
       THEN Reply(r, HTTP_400_BAD_REQUEST, {}) /\ NoUserWrite
       ELSE /\ password' = [password EXCEPT ![user] = make_password(body.new_password)]
            /\ blacklisted' = blacklist_all_tokens(user)
            /\ outstanding' = outstanding \cup {for_user(user, nextTokenId)}
            /\ nextTokenId' = nextTokenId + 1
            /\ UNCHANGED <<users, nextUserId>>
            /\ Reply(r, HTTP_200_OK, {nextTokenId})

\* the accounts demo_login hands tokens out for
DemoAccounts ==
    << [username |-> "demo_admin", role |-> "admin"],
       [username |-> "demo_manager", role |-> "manager"],
       [username |-> "demo_employee", role |-> "employee"] >>

DemoUsernames == {DemoAccounts[i].username : i \in DOMAIN DemoAccounts}

\* get_or_create_demo_user: the row of that username, made when missing
demo_row(account) ==
    [ username   |-> account.username,
      email      |-> "",
      first_name |-> account.role,
      last_name  |-> "Demo",
      role       |-> account.role ]

\* GET users/demo/login/ : AllowAny
demo_login ==
    LET r == Request("demo_login", "GET", Anonymous, 0, NoBody, NoFiles)
        missing == SelectSeq(DemoAccounts,
                        LAMBDA a : \A u \in AllUserIds : username(u) # a.username)
        newUsers == [u \in nextUserId..(nextUserId + Len(missing) - 1) |->
                        demo_row(missing[u - nextUserId + 1])]
        table == newUsers @@ users
        id_of(a) == CHOOSE u \in DOMAIN table : table[u].username = a.username
        tokens == {for_user(id_of(DemoAccounts[i]), nextTokenId + i - 1) :
                        i \in DOMAIN DemoAccounts}
    IN
    /\ Idle
    /\ users' = table
    /\ password' = [u \in DOMAIN newUsers |-> << >>] @@ password
    /\ nextUserId' = nextUserId + Len(missing)
    /\ outstanding' = outstanding \cup tokens
    /\ nextTokenId' = nextTokenId + Len(DemoAccounts)
    /\ UNCHANGED blacklisted
    /\ Reply(r, HTTP_200_OK, {t.id : t \in tokens})

\* the users app, served by the same worker
NextUsers ==
    \/ \E user \in UserCallers : get_all_user(user)
    \/ \E body \in RegisterBodies : register_user(body)
    \/ \E identifier \in Identifiers, pw \in LoginPasswords, model_backend \in BOOLEAN :
            login_user(identifier, pw, model_backend)
    \/ \E user \in UserCallers, body \in PasswordBodies : change_password(user, body)
    \/ demo_login
    \/ deliver_response

SpecUsers == Init /\ [][NextUsers]_vars

\* the task views called with the tokens demo_login hands out
NextDemo ==
    \/ demo_login
    \/ \E user \in DOMAIN users, body \in CreateBodies, files \in FileLists,
          chan_ok \in BOOLEAN :
            create_task(user, body, files, chan_ok)
    \/ \E user \in DOMAIN users, task_id \in TaskIds : list_one_task(user, task_id)
    \/ \E user \in DOMAIN users, task_id \in TaskIds, method \in {"PUT", "PATCH"},
          body \in UpdateBodies :
            update_task(user, task_id, method, body)
    \/ \E user \in DOMAIN users, task_id \in TaskIds : delete_task(user, task_id)
    \/ \E user \in DOMAIN users, task_id \in TaskIds : mark_task_complete(user, task_id)
    \/ deliver_response

SpecDemo == Init /\ [][NextDemo]_vars

----------------------------------------------------------------------------
(* Vocabulary of the properties                                            *)

Answered == req.op # "none"
Answered_ == req'.op # "none"

\* the task the request being answered names, as it was before the request
Target == tasks[req'.task]
OnTask == Answered_ /\ req'.task \in DOMAIN tasks

Succeeded(code) == code \in {HTTP_200_OK, HTTP_201_CREATED, HTTP_204_NO_CONTENT}

RepositoryUnchanged == tasks' = tasks /\ attachments' = attachments

\* the request was refused and wrote nothing
Refused == ~Succeeded(resp') /\ RepositoryUnchanged

Methods == {"GET", "POST", "PUT", "PATCH", "DELETE"}

----------------------------------------------------------------------------
C2_NonCreatorManagerRefused ==
    [][ (OnTask /\ role(req'.user) = "manager" /\ Target.assigned_by # req'.user) =>
            /\ req'.op \in {"update_task", "update_task_deadline", "delete_task"} => Refused
            /\ req'.op = "list_one_task" => resp' = HTTP_200_OK
      ]_vars

(* C3.  A task disappears from the repository only through a delete_task   *)
(* request by an Admin or by the Manager who created it; a delete_task     *)
(* request by any other Manager or by an Employee is answered 403 and the  *)
(* task stays.                                                             *)
C3_DeleteOnlyByAdminOrCreator ==
    [][ /\ \A t \in DOMAIN tasks :
            t \notin DOMAIN tasks' =>
                /\ req'.op = "delete_task" /\ req'.task = t
                /\ \/ role(req'.user) = "admin"
                   \/ role(req'.user) = "manager" /\ tasks[t].assigned_by = req'.user
        /\ (OnTask /\ req'.op = "delete_task"
                /\ \/ role(req'.user) = "employee"
                   \/ role(req'.user) = "manager" /\ Target.assigned_by # req'.user) =>
                /\ resp' = HTTP_403_FORBIDDEN
                /\ req'.task \in DOMAIN tasks'
      ]_vars

(* C4.  An Employee who is not among the assignees of T is refused the     *)
(* single-task read and the status update of T; an Employee who is among   *)
(* them is allowed those two and refused general update, assignee update,  *)
(* deadline update and delete, which leave T unchanged.                    *)
C4_EmployeeScope ==
    [][ (OnTask /\ role(req'.user) = "employee") =>
            IF req'.user \notin Target.assigned_to
            THEN req'.op \in {"list_one_task", "mark_task_complete"} => Refused
            ELSE /\ req'.op \in {"list_one_task", "mark_task_complete"} =>
                        resp' = HTTP_200_OK
                 /\ req'.op \in {"update_task", "update_task_deadline", "delete_task"} =>
                        Refused
      ]_vars

(* C5.  create_task by a principal with role employee is answered 403      *)
(* whatever the body holds: no task and no attachment is written and no    *)
(* notification is sent.                                                   *)
C5_EmployeeCreateForbidden ==
    [][ (Answered_ /\ req'.op = "create_task" /\ role(req'.user) = "employee") =>
            /\ resp' = HTTP_403_FORBIDDEN
            /\ RepositoryUnchanged
            /\ nextTaskId' = nextTaskId
            /\ sent' = sent
      ]_vars

\* an employee posted a draft that passes validation, with files, and got 403
C5_Witness ==
    /\ req.op = "create_task"
    /\ role(req.user) = "employee"
    /\ is_valid(req.body, FALSE)
    /\ req.files # << >>
    /\ resp = HTTP_403_FORBIDDEN

\* the users whose role is employee
Employees == {u \in UserIds : role(u) = "employee"}

(* C6.  create_task by an Admin or Manager with a title, a description, a  *)
(* deadline and a non-empty assigned_to list of ids of existing users with *)
(* role employee is answered 201 and persists exactly one new task:        *)
(* status pending, assigned_by the caller, assigned_to the requested set,  *)
(* one attachment per uploaded file.                                       *)
C6_CreateSucceeds ==
    [][ (Answered_ /\ req'.op = "create_task"
            /\ role(req'.user) \in {"admin", "manager"}
            /\ RequiredFields \subseteq DOMAIN req'.body
            /\ req'.body.title # "" /\ req'.body.description # ""
            /\ DateField_to_internal_value(req'.body.deadline) # BadDate
            /\ req'.body.assigned_to # << >>
            /\ SeqToSet(req'.body.assigned_to) \subseteq Employees) =>
            /\ resp' = HTTP_201_CREATED
            /\ DOMAIN tasks' = DOMAIN tasks \cup {nextTaskId}
            /\ nextTaskId \notin DOMAIN tasks
            /\ tasks'[nextTaskId].status = PENDING
            /\ tasks'[nextTaskId].assigned_by = req'.user
            /\ tasks'[nextTaskId].assigned_to = SeqToSet(req'.body.assigned_to)
            /\ Cardinality({a \in attachments' : a.task = nextTaskId}) = Len(req'.files)
      ]_vars

(* C7.  Every persisted task has a non-empty assignee set.                 *)
C7_AssigneesNeverEmpty ==
    \A t \in DOMAIN tasks : tasks[t].assigned_to # {}

(* C8.  Completed is terminal: no request changes the status of a          *)
(* completed task; a request asking for another status is answered with an *)
(* error; mark_task_complete on a completed task succeeds and leaves the   *)
(* task unchanged.                                                         *)
C8_CompletedTerminal ==
    [][ /\ \A t \in DOMAIN tasks \cap DOMAIN tasks' :
            tasks[t].status = COMPLETED => tasks'[t].status = COMPLETED
        /\ (OnTask /\ Target.status = COMPLETED /\ req'.op = "update_task"
                /\ Has(req'.body, "status") /\ req'.body.status # COMPLETED) =>
                Refused
        /\ (OnTask /\ Target.status = COMPLETED /\ req'.op = "mark_task_complete"
                /\ has_object_permission(req'.user, "PATCH", Target)) =>
                /\ resp' = HTTP_200_OK
                /\ RepositoryUnchanged
      ]_vars

(* C9.  An Employee assigned to a pending task moves it to in_progress     *)
(* with a status update (the request succeeds and in_progress is stored);  *)
(* a following request to move it back to pending fails and leaves         *)
(* in_progress stored.                                                     *)
C9_EmployeeStartsTask ==
    [][ (OnTask /\ role(req'.user) = "employee" /\ req'.user \in Target.assigned_to
            /\ req'.op = "update_task" /\ req'.method = "PATCH") =>
            /\ (Target.status = PENDING /\ req'.body = [status |-> IN_PROGRESS]) =>
                    /\ resp' = HTTP_200_OK
                    /\ tasks'[req'.task].status = IN_PROGRESS
            /\ (Target.status = IN_PROGRESS /\ req'.body = [status |-> PENDING]) =>
                    /\ ~Succeeded(resp')
                    /\ tasks'[req'.task].status = IN_PROGRESS
      ]_vars

(* C10.  assigned_by and assigned_date of a task keep the values given at  *)
(* creation: no request changes either, whatever its body carries.         *)
C10_CreatorAndDateWriteOnce ==
    [][ /\ \A t \in DOMAIN tasks \cap DOMAIN tasks' :
            /\ tasks'[t].assigned_by = tasks[t].assigned_by
            /\ tasks'[t].assigned_date = tasks[t].assigned_date
        /\ (Answered_ /\ req'.op = "create_task" /\ nextTaskId' # nextTaskId) =>
            /\ tasks'[nextTaskId].assigned_by = req'.user
            /\ tasks'[nextTaskId].assigned_date = now
      ]_vars

\* an update whose body carried another assigned_by and another
\* assigned_date was accepted
C10_Witness ==
    /\ req.op = "update_task"
    /\ resp = HTTP_200_OK
    /\ Has(req.body, "assigned_by") /\ Has(req.body, "assigned_date")
    /\ req.task \in DOMAIN tasks
    /\ tasks[req.task].assigned_by # req.body.assigned_by
    /\ tasks[req.task].assigned_date # req.body.assigned_date
    /\ tasks[req.task].title = req.body.title

\* the body without the keys of the read-only fields
Strip(body) ==
    [f \in DOMAIN body \ {"assigned_by", "assigned_date"} |-> body[f]]

CarriesReadOnly(body) == Has(body, "assigned_by") \/ Has(body, "assigned_date")

C12_NotificationDelta ==
    [][ (OnTask /\ req'.op = "update_task" /\ resp' = HTTP_200_OK
            /\ Has(req'.body, "assigned_to")) =>
            sent' = sent (+) SetToBag(
                {Notification(e, req'.task, tasks'[req'.task], req'.user) :
                    e \in tasks'[req'.task].assigned_to \ Target.assigned_to})
      ]_vars

\* number of group_send calls a request made to the channel of user u
SendsTo(u) == CopiesIn(u, BagOfAll(LAMBDA m : m.group, sent' (-) sent))

(* C13.  A create_task answered 201 makes exactly one group_send per       *)
(* member of the new task's assigned_to, addressed to that member's own    *)
(* channel and carrying the task's id, its title and the creator's         *)
(* username, and none to anyone else; a create_task answered 400, 401 or   *)
(* 403 makes no group_send.                                                *)
C13_OneSendPerAssignee ==
    [][ (Answered_ /\ req'.op = "create_task") =>
            /\ resp' = HTTP_201_CREATED =>
                    /\ sent \sqsubseteq sent'
                    /\ \A u \in UserIds \cup {Anonymous} :
                            SendsTo(u) =
                                IF u \in tasks'[nextTaskId].assigned_to THEN 1 ELSE 0
                    /\ \A m \in BagToSet(sent' (-) sent) :
                            /\ m.task_id = nextTaskId
                            /\ m.task_title = req'.body.title
                            /\ m.assigned_by = username(req'.user)
            /\ resp' \in {HTTP_400_BAD_REQUEST, HTTP_401_UNAUTHORIZED,
                          HTTP_403_FORBIDDEN} =>
                    sent' = sent
      ]_vars

\* a manager created a task for two assignees and two messages went out,
\* one to each
C13_Witness ==
    /\ req.op = "create_task"
    /\ role(req.user) = "manager"
    /\ resp = HTTP_201_CREATED
    /\ SeqToSet(req.body.assigned_to) = {6, 7}
    /\ BagCardinality(sent) = 2
    /\ \A u \in {6, 7} : \E m \in BagToSet(sent) : m.group = u /\ CopiesIn(m, sent) = 1

(* C14.  A failure of the channel layer during create_task is not shown to *)
(* the caller: a create_task that passes the permission check and the      *)
(* validation persists the task and is answered 201 whether or not         *)
(* group_send raises, and no create_task that persisted a task is answered *)
(* with an error.                                                          *)
C14_NotificationFailureSwallowed ==
    [][ (Answered_ /\ req'.op = "create_task") =>
            /\ (initial(req'.user, "POST") = 0 /\ is_valid(req'.body, FALSE)) =>
                    /\ resp' = HTTP_201_CREATED
                    /\ nextTaskId \in DOMAIN tasks'
            /\ tasks' # tasks => resp' = HTTP_201_CREATED
      ]_vars

(* C15.  list_all_task answers each principal with the tasks that          *)
(* principal may see and no other: every task for an Admin, the tasks they *)
(* created or are assigned to for a Manager, the tasks whose assigned_to   *)
(* contains them for an Employee.                                          *)
C15_ListVisibility ==
    [][ (Answered_ /\ req'.op = "list_all_task" /\ resp' = HTTP_200_OK) =>
            /\ role(req'.user) = "admin" => listed' = DOMAIN tasks
            /\ role(req'.user) = "manager" =>
                    listed' = {t \in DOMAIN tasks :
                                  \/ tasks[t].assigned_by = req'.user
                                  \/ req'.user \in tasks[t].assigned_to}
            /\ role(req'.user) = "employee" =>
                    listed' = {t \in DOMAIN tasks : req'.user \in tasks[t].assigned_to}
      ]_vars

(* C16.  filter_by_status with status s answers an Admin with every task   *)
(* whose status equals s case-insensitively, assigned to the Admin or not, *)
(* and a Manager or an Employee with the tasks of that status whose        *)
(* assigned_to contains the caller; filter_by_deadline applies the same    *)
(* role rule to the tasks whose deadline is on or before the given date.   *)
C16_FilterByRole ==
    [][ (Answered_ /\ resp' = HTTP_200_OK
            /\ req'.op \in {"filter_by_status", "filter_by_deadline"}
            /\ role(req'.user) \in {"admin", "manager", "employee"}) =>
            LET matching ==
                    IF req'.op = "filter_by_status"
                    THEN {t \in DOMAIN tasks : iexact(tasks[t].status, req'.body.status)}
                    ELSE {t \in DOMAIN tasks : DateLE(tasks[t].deadline, req'.body.date)}
            IN  listed' = IF role(req'.user) = "admin"
                          THEN matching
                          ELSE {t \in matching : req'.user \in tasks[t].assigned_to}
      ]_vars

(* C17.  An authenticated principal whose role is none of admin, manager,  *)
(* employee is refused every task operation, create_task included, and no  *)
(* request of such a principal changes the repository.                     *)
C17_DefaultDeny ==
    [][ (Answered_ /\ is_authenticated(req'.user)
            /\ role(req'.user) \notin {"admin", "manager", "employee"}) =>
            Refused
      ]_vars

(* C18.  Every member of every task's assigned_to is a user with role      *)
(* employee: create_task and update_task answer 400 and write nothing when *)
(* the assigned_to list holds the id of an admin, of a manager or of no    *)
(* user, and accept a list made only of ids of users with role employee.   *)
C18_AssigneesAreEmployees ==
    [][ /\ \A t \in DOMAIN tasks : tasks[t].assigned_to \subseteq Employees
        /\ (Answered_ /\ req'.op \in {"create_task", "update_task"}
                /\ initial(req'.user, req'.method) = 0
                /\ (req'.op = "update_task" => req'.task \in DOMAIN tasks)
                /\ Has(req'.body, "assigned_to")) =>
                IF SeqToSet(req'.body.assigned_to) \subseteq Employees
                THEN (req'.op = "update_task" /\ req'.method = "PATCH"
                        /\ DOMAIN req'.body = {"assigned_to"}) =>
                            /\ resp' = HTTP_200_OK
                            /\ tasks'[req'.task].assigned_to =
                                    SeqToSet(req'.body.assigned_to)
                ELSE /\ resp' = HTTP_400_BAD_REQUEST
                     /\ RepositoryUnchanged
      ]_vars

(* C19.  The deadline of a task changes only through an update_task or an  *)
(* update_task_deadline request on that task issued by an Admin or by the  *)
(* Manager who created it: no request of an Employee or of another Manager *)
(* changes a deadline.                                                     *)
C19_DeadlineByAdminOrCreator ==
    [][ \A t \in DOMAIN tasks \cap DOMAIN tasks' :
            tasks'[t].deadline # tasks[t].deadline =>
                /\ req'.op \in {"update_task", "update_task_deadline"}
                /\ req'.task = t
                /\ \/ role(req'.user) = "admin"
                   \/ role(req'.user) = "manager" /\ tasks[t].assigned_by = req'.user
      ]_vars

(* C20 as stated.  mark_task_complete is allowed to every principal with   *)
(* role manager, creator of the task or not: the request is answered 200   *)
(* and the task is completed.                                              *)
C20_AnyManagerCompletes ==
    [][ (OnTask /\ req'.op = "mark_task_complete" /\ role(req'.user) = "manager") =>
            /\ resp' = HTTP_200_OK
            /\ tasks'[req'.task].status = COMPLETED
      ]_vars

(* C20 amended.  mark_task_complete is allowed to a principal with role    *)
(* manager exactly when that Manager created the task: the creator is      *)
(* answered 200 and the task is completed, any other Manager is answered   *)
(* 403 and the task is unchanged.                                          *)
C20_CreatorManagerCompletes ==
    [][ (OnTask /\ req'.op = "mark_task_complete" /\ role(req'.user) = "manager") =>
            IF Target.assigned_by = req'.user
            THEN /\ resp' = HTTP_200_OK
                 /\ tasks'[req'.task].status = COMPLETED
            ELSE /\ resp' = HTTP_403_FORBIDDEN
                 /\ RepositoryUnchanged
      ]_vars

\* a manager asked to complete a pending task another manager created and
\* was answered 403, the task staying pending
C20_Witness ==
    /\ req.op = "mark_task_complete"
    /\ role(req.user) = "manager"
    /\ resp = HTTP_403_FORBIDDEN
    /\ req.task \in DOMAIN tasks
    /\ tasks[req.task].assigned_by # req.user
    /\ role(tasks[req.task].assigned_by) = "manager"
    /\ tasks[req.task].status = PENDING

(* C21.  Deleting a task removes its attachments with it: every stored     *)
(* TaskAttachment references a task that exists, and after a delete_task   *)
(* answered 204 neither the task nor an attachment of it is stored.        *)
C21_CascadeDelete ==
    [][ /\ \A a \in attachments' : a.task \in DOMAIN tasks'
        /\ (Answered_ /\ req'.op = "delete_task" /\ resp' = HTTP_204_NO_CONTENT) =>
                /\ req'.task \notin DOMAIN tasks'
                /\ \A a \in attachments' : a.task # req'.task
                /\ \A a \in attachments : a.task # req'.task => a \in attachments'
      ]_vars

\* a task was created with two files and then deleted: the two attachment
\* rows that were written are gone
C21_Witness ==
    /\ req.op = "delete_task"
    /\ resp = HTTP_204_NO_CONTENT
    /\ req.task \notin DOMAIN tasks
    /\ nextAttId = 3
    /\ attachments = {}

SingleTaskOps ==
    {"list_one_task", "update_task", "delete_task", "mark_task_complete",
     "update_task_deadline"}

(* C27.  A single-task request of an authenticated principal that names a  *)
(* task id that does not exist is answered 404, never 403, whatever the    *)
(* caller's role, and writes nothing.                                      *)
C27_NotFoundBeforeForbidden ==
    [][ (Answered_ /\ req'.op \in SingleTaskOps /\ is_authenticated(req'.user)
            /\ req'.task \notin DOMAIN tasks) =>
            /\ resp' = HTTP_404_NOT_FOUND
            /\ RepositoryUnchanged
      ]_vars

\* an employee asked to delete a task that does not exist and was answered
\* 404
C27_Witness ==
    /\ req.op = "delete_task"
    /\ role(req.user) = "employee"
    /\ req.task \notin DOMAIN tasks
    /\ tasks # << >>
    /\ resp = HTTP_404_NOT_FOUND

(* C28.  update_task_deadline checks existence, then authorization, then   *)
(* presence, then parses: for an allowed principal a missing, empty or     *)
(* unparseable deadline value is answered 400 and the task is unchanged in *)
(* every field; a parseable date is answered 200 and that date is stored,  *)
(* past or future.                                                         *)
C28_DeadlineValidation ==
    [][ (Answered_ /\ req'.op = "update_task_deadline" /\ is_authenticated(req'.user)) =>
            IF req'.task \notin DOMAIN tasks THEN resp' = HTTP_404_NOT_FOUND
            ELSE IF ~has_object_permission(req'.user, "PATCH", Target)
            THEN resp' = HTTP_403_FORBIDDEN /\ RepositoryUnchanged
            ELSE IF \/ ~Has(req'.body, "deadline")
                    \/ req'.body.deadline = << >>
                    \/ IsNumber(req'.body.deadline)
                    \/ fromisoformat(req'.body.deadline) = BadDate
            THEN resp' = HTTP_400_BAD_REQUEST /\ RepositoryUnchanged
            ELSE /\ resp' = HTTP_200_OK
                 /\ tasks'[req'.task] =
                        [Target EXCEPT !.deadline = <<req'.body.deadline[1],
                                                      req'.body.deadline[2],
                                                      req'.body.deadline[3]>>]
      ]_vars

(* C29.  A mark_task_complete answered 200 stores the completed status,    *)
(* which reads back as "Completed", and changes no other field of the task *)
(* and no attachment; a mark_task_complete that is refused or names a      *)
(* missing task changes nothing.                                           *)
C29_CompleteFrame ==
    [][ (Answered_ /\ req'.op = "mark_task_complete") =>
            IF resp' = HTTP_200_OK
            THEN /\ req'.task \in DOMAIN tasks
                 /\ tasks' = [tasks EXCEPT ![req'.task].status = "Completed"]
                 /\ attachments' = attachments
            ELSE RepositoryUnchanged
      ]_vars

(* C22.  get_all_user answers with the list of users only an authenticated *)
(* principal with role admin; an unauthenticated caller, a Manager and an  *)
(* Employee are answered 401 or 403 and get no user data.                  *)
C22_UsersListAdminOnly ==
    [][ (Answered_ /\ req'.op = "get_all_user") =>
            IF is_authenticated(req'.user) /\ role(req'.user) = "admin"
            THEN resp' = HTTP_200_OK /\ listed' = AllUserIds
            ELSE /\ resp' \in {HTTP_401_UNAUTHORIZED, HTTP_403_FORBIDDEN}
                 /\ listed' = {}
      ]_vars

C24_DemoUsersReadOnly ==
    [][ (Answered_ /\ req'.user \in DOMAIN users
            /\ username(req'.user) \in DemoUsernames) =>
            RepositoryUnchanged
      ]_vars

\* the rows register_user wrote
Registered == {u \in DOMAIN users : users[u].username \notin DemoUsernames}

----------------------------------------------------------------------------
(* Properties of the views run step by step                                *)

\* worker w has answered code to a request op on task t
StepAnswered(w, op, t, code) ==
    /\ worker[w].pc = "done"
    /\ worker[w].op = op
    /\ worker[w].task_id = t
    /\ worker[w].resp = code

\* the attachment rows of task t
AttachmentsOf(t) == {a \in attachments : a.task = t}

(* C25.  When a mark_task_complete and an update_task_deadline or           *)
(* update_task on the same task run side by side and both answer 200, the  *)
(* stored task is completed and carries the new deadline, whatever the     *)
(* order of their steps; and no step writes a completed task back to       *)
(* another status.                                                         *)
C25_NoLostUpdate ==
    [][ /\ \A t \in DOMAIN tasks \cap DOMAIN tasks' :
                tasks[t].status = COMPLETED => tasks'[t].status = COMPLETED
        /\ \A w \in Workers, v \in Workers, t \in DOMAIN tasks' :
              ( /\ StepAnswered(w, "mark_task_complete", t, HTTP_200_OK)'
                /\ \/ StepAnswered(v, "update_task_deadline", t, HTTP_200_OK)'
                   \/ StepAnswered(v, "update_task", t, HTTP_200_OK)'
                /\ Has(worker'[v].body, "deadline") ) =>
                    /\ tasks'[t].status = COMPLETED
                    /\ tasks'[t].deadline = fromisoformat(worker'[v].body.deadline)
      ]_vars

====
